---- MODULE Spec2Model ----
(***************************************************************************)
(* Model of the photo-candidate sampler of fetch_photos.py                 *)
(* (stratified_sample and the seeded random source it draws from), of      *)
(* candidate discovery and main around it, and of fetch.py's main_async    *)
(* with its cache of asset ids.                                            *)
(*                                                                         *)
(* Optional[T] values are sequences: <<>> is None and <<v>> is the value   *)
(* v.  Python strings that the code inspects character by character        *)
(* (region codes) are sequences of one-character strings; floats that are  *)
(* only compared (ratings) are integers; low_quality_frac is an exact      *)
(* fraction <<numerator, denominator>>.                                    *)
(***************************************************************************)
EXTENDS Integers, Sequences, FiniteSets, TLC

VARIABLES
    cands, limit, min_rating, max_per_observer, months, region,
    low_quality_frac,                \* the arguments of stratified_sample
    rng,                             \* the random.Random instance
    pc,                              \* position inside stratified_sample
    filtered, deduped, capped,       \* its locals
    with_rating, no_rating, top_cut, top_pool, top_pick,
    realistic_pool, realistic_pick, picks,
    result,                          \* the returned list
    run, first,                      \* invocation number, result of the first
    df, row, mpc, out_rows, csv,     \* main: input rows, loop position, output
    mode, dry_run,                   \* args.mode, args.dry_run
    site, page, found,               \* discovery: remote pages, page loop
    returned,                        \* the lists stratified_sample returned
    cache, fresh_ids                 \* fetch.py: cache files, ids just gathered

args == <<cands, limit, min_rating, max_per_observer, months, region,
          low_quality_frac>>
locals == <<filtered, deduped, capped, with_rating, no_rating, top_cut,
            top_pool, top_pick, realistic_pool, realistic_pick, picks>>
env == <<df, row, mpc, out_rows, csv, mode, dry_run, site, page, found,
         returned, cache, fresh_ids>>
vars == <<args, rng, pc, locals, result, run, first, env>>

----------------------------------------------------------------------------
(* Bounds of the explored inputs *)

MaxLen == 3        \* longest candidate list
MaxLimit == 2      \* largest limit

(* Python values *)

None == <<>>
Some(v) == <<v>>
IsNone(o) == o = <<>>
Val(o) == o[1]

Min(a, b) == IF a <= b THEN a ELSE b
Max(a, b) == IF a >= b THEN a ELSE b

\* list[:n] for any integer n (negative n counts from the end)
Take(s, n) ==
    IF n >= 0 THEN SubSeq(s, 1, Min(n, Len(s)))
    ELSE SubSeq(s, 1, Max(Len(s) + n, 0))

\* list[n:] for n >= 0
Drop(s, n) == SubSeq(s, Min(n, Len(s)) + 1, Len(s))

\* the elements of s at the positions in I, in list order
\* ([x for i, x in enumerate(s) if i in I])
RECURSIVE SubList(_, _)
SubList(s, I) ==
    IF s = <<>> THEN <<>>
    ELSE LET rest == SubList(Tail(s), {i - 1 : i \in I \ {1}})
         IN  IF 1 \in I THEN <<Head(s)>> \o rest ELSE rest

\* str.lower() on the letters that occur in region codes
UpperToLower ==
    "A" :> "a" @@ "C" :> "c" @@ "N" :> "n" @@ "S" :> "s" @@ "U" :> "u" @@
    "Y" :> "y"
LowerChar(ch) == IF ch \in DOMAIN UpperToLower THEN UpperToLower[ch] ELSE ch
Lower(s) == [i \in 1..Len(s) |-> LowerChar(s[i])]

\* a in b for two strings
IsSubstring(a, b) ==
    \E i \in 0..(Len(b) - Len(a)) : SubSeq(b, i + 1, i + Len(a)) = a

\* round() of the fraction n/d (d > 0): to nearest, ties to the even integer
Round(n, d) ==
    LET q == n \div d
        r == n % d
    IN  IF 2 * r < d THEN q
        ELSE IF 2 * r > d THEN q + 1
        ELSE IF q % 2 = 0 THEN q ELSE q + 1

----------------------------------------------------------------------------
(* Candidate records *)

Candidate(mlid, rating, observer, reg, month, quality_rank) ==
    [mlid |-> mlid, rating |-> rating, observer |-> observer, region |-> reg,
     month |-> month, quality_rank |-> quality_rank]

\* The candidates Discovery can hand over in the explored runs.
Universe ==
    { Candidate("101", Some(5), Some("ann"), Some(<<"U","S","-","N","Y">>),
                Some(6), Some(2)),
      Candidate("102", Some(4), Some("ann"), None, None, None),
      Candidate("103", None, None, Some(<<"C","A">>), Some(1), None),
      Candidate("104", Some(5), None, Some(<<"u","s">>), Some(7), Some(0)),
      Candidate("101", Some(2), Some("bob"), Some(<<"U","S">>), Some(6),
                Some(1)) }

CandidateLists == UNION { [1..n -> Universe] : n \in 0..MaxLen }
Limits == -1 .. MaxLimit
MinRatings == {3, 5}
Caps == {1, 2}
MonthsArgs == {None, Some(<<6, 7>>)}
RegionArgs == {None, Some(<<"u","S","-">>)}
Fractions == {<<0, 1>>, <<3, 10>>, <<1, 2>>}

----------------------------------------------------------------------------
(* The seeded random source.  A seed fixes the sequence of numbers the      *)
(* generator yields; tape holds the part of that sequence observed so far   *)
(* and pos counts the numbers the current generator object has consumed.    *)

\* random.Random(seed) for a seed whose numbers are recorded in tape
Seeded(tape) == [tape |-> tape, pos |-> 0]

\* the draw sequences rng.shuffle makes on a list of n elements:
\* js[k] is randbelow(i + 1) for i = n - k, k = 1 .. n - 1
ShuffleDraws(n) ==
    {js \in [1..(n - 1) -> 0..(n - 1)] : \A k \in 1..(n - 1) : js[k] <= n - k}

\* a shuffle that draws from somewhere else than the seeded generator
YieldsAnything(r, js) == TRUE

\* the generator r yields exactly the draws js next
Yields(r, js) ==
    \A k \in 1..Len(js) :
        r.pos + k <= Len(r.tape) => js[k] = r.tape[r.pos + k]

\* the generator after yielding js
Advance(r, js) ==
    [tape |-> r.tape \o SubSeq(js, Min(Len(js), Len(r.tape) - r.pos) + 1, Len(js)),
     pos |-> r.pos + Len(js)]

Swap(x, a, b) == [x EXCEPT ![a] = x[b], ![b] = x[a]]

\* random.shuffle: for i in reversed(range(1, len(x))): swap x[i], x[j]
RECURSIVE ShuffleFrom(_, _, _)
ShuffleFrom(x, js, k) ==
    IF k > Len(js) THEN x
    ELSE ShuffleFrom(Swap(x, (Len(x) - k) + 1, js[k] + 1), js, k + 1)

Shuffled(x, js) == ShuffleFrom(x, js, 1)

----------------------------------------------------------------------------
(* stratified_sample *)

NoRank == 999999

\* operands of the substring test swapped
ok_region_swapped(c) ==
    IF IsNone(region) \/ region = Some(<<>>) THEN TRUE
    ELSE IF IsNone(c.region) \/ c.region = Some(<<>>) THEN TRUE
    ELSE IsSubstring(Lower(Val(c.region)), Lower(Val(region)))

ok_region(c) ==
    IF IsNone(region) \/ region = Some(<<>>) THEN TRUE
    ELSE IF IsNone(c.region) \/ c.region = Some(<<>>) THEN TRUE
    ELSE IsSubstring(Lower(Val(region)), Lower(Val(c.region)))

\* membership test negated
ok_month_negated(c) ==
    IF IsNone(months) \/ months = Some(<<>>) THEN TRUE
    ELSE IF IsNone(c.month) THEN TRUE
    ELSE ~\E i \in 1..Len(Val(months)) : Val(months)[i] = Val(c.month)

ok_month(c) ==
    IF IsNone(months) \/ months = Some(<<>>) THEN TRUE
    ELSE IF IsNone(c.month) THEN TRUE
    ELSE \E i \in 1..Len(Val(months)) : Val(months)[i] = Val(c.month)

\* comparison turned around
ok_rating_flipped(c) == IsNone(c.rating) \/ Val(c.rating) <= min_rating

ok_rating(c) == IsNone(c.rating) \/ Val(c.rating) >= min_rating

\* "or" in place of the first "and"
FilteredOr(cs) ==
    SubList(cs, {i \in 1..Len(cs) :
                    ok_rating(cs[i]) \/ (ok_region(cs[i]) /\ ok_month(cs[i]))})

Filtered(cs) ==
    SubList(cs, {i \in 1..Len(cs) :
                    ok_rating(cs[i]) /\ ok_region(cs[i]) /\ ok_month(cs[i])})

RECURSIVE DedupeLoop(_, _, _)
DedupeLoop(cs, seen, out) ==
    IF cs = <<>> THEN out
    ELSE IF Head(cs).mlid \in seen THEN DedupeLoop(Tail(cs), seen, out)
    ELSE DedupeLoop(Tail(cs), seen \cup {Head(cs).mlid}, Append(out, Head(cs)))

\* only a repeat of the element just before is dropped
DedupedAdjacent(cs) ==
    SubList(cs, {i \in 1..Len(cs) : i = 1 \/ cs[i].mlid # cs[i - 1].mlid})

Deduped(cs) == DedupeLoop(cs, {}, <<>>)

\* c.observer or "_unknown_"
ObserverKey(c) ==
    IF IsNone(c.observer) \/ c.observer = Some("") THEN "_unknown_"
    ELSE Val(c.observer)

\* off by one
UnderCapInclusive(n) == n <= max_per_observer

\* n < max_per_observer
UnderCap(n) == n < max_per_observer

\* counts is the dict of the loop: a function on the keys seen so far
RECURSIVE CapLoop(_, _, _)
CapLoop(cs, counts, out) ==
    IF cs = <<>> THEN out
    ELSE LET c == Head(cs)
             obs == ObserverKey(c)
             n == IF obs \in DOMAIN counts THEN counts[obs] ELSE 0
         IN  IF UnderCap(n)
             THEN CapLoop(Tail(cs), (obs :> n + 1) @@ counts, Append(out, c))
             ELSE CapLoop(Tail(cs), counts, out)

Capped(cs) == CapLoop(cs, <<>>, <<>>)

\* x.quality_rank or 999999
RankKey(c) ==
    IF IsNone(c.quality_rank) \/ c.quality_rank = Some(0) THEN NoRank
    ELSE Val(c.quality_rank)

\* (-a.rating, rank) <= (-b.rating, rank) as Python compares tuples
KeyLE(a, b) ==
    \/ Val(a.rating) > Val(b.rating)
    \/ Val(a.rating) = Val(b.rating) /\ RankKey(a) <= RankKey(b)

\* list.sort is stable: an element goes after every element whose key is
\* not greater than its own
RECURSIVE InsertSorted(_, _)
InsertSorted(sorted, c) ==
    IF sorted = <<>> THEN <<c>>
    ELSE IF KeyLE(Head(sorted), c)
         THEN <<Head(sorted)>> \o InsertSorted(Tail(sorted), c)
         ELSE <<c>> \o sorted

RECURSIVE SortLoop(_, _)
SortLoop(cs, sorted) ==
    IF cs = <<>> THEN sorted
    ELSE SortLoop(Tail(cs), InsertSorted(sorted, Head(cs)))

SortedByRating(cs) == SortLoop(cs, <<>>)

WithRating(cs) == SubList(cs, {i \in 1..Len(cs) : ~IsNone(cs[i].rating)})
NoRating(cs) == SubList(cs, {i \in 1..Len(cs) : IsNone(cs[i].rating)})

\* max(1, int(round(limit * (1 - low_quality_frac))))
TopCut(lim, frac) ==
    Max(1, Round(lim * (frac[2] - frac[1]), frac[2]))

\* with_rating[: max(top_cut * 3, top_cut + 5)]
TopPool(sorted, cut) == Take(sorted, Max(cut * 3, cut + 5))

\* one pick too few
TopPickShort(pool, cut) == Take(pool, Min(Len(pool), cut) - 1)

\* top_pool[: min(len(top_pool), top_cut)]
TopPick(pool, cut) == Take(pool, Min(Len(pool), cut))

\* the window's candidates that were not picked are put back
RealisticPoolWithUnpicked(sorted, pool, unrated) ==
    Drop(pool, Min(Len(pool), top_cut)) \o Drop(sorted, Len(pool)) \o unrated

\* with_rating[len(top_pool):] + no_rating
RealisticPool(sorted, pool, unrated) == Drop(sorted, Len(pool)) \o unrated

\* realistic_pool[: max(0, limit - len(top_pick))]
RealisticPick(pool, lim, tp) == Take(pool, Max(0, lim - Len(tp)))

\* no truncation
ReturnedUncut(ps, lim) == ps

\* limit clamped to at least one
ReturnedAtLeastOne(ps, lim) == Take(ps, Max(lim, 1))

\* picks[:limit]
Returned(ps, lim) == Take(ps, lim)

----------------------------------------------------------------------------
(* State machine: one call of stratified_sample, step by step *)

NoLocals ==
    /\ filtered = <<>> /\ deduped = <<>> /\ capped = <<>>
    /\ with_rating = <<>> /\ no_rating = <<>> /\ top_cut = 0
    /\ top_pool = <<>> /\ top_pick = <<>> /\ realistic_pool = <<>>
    /\ realistic_pick = <<>> /\ picks = <<>>

\* no program around the call
NoProgram ==
    /\ df = <<>> /\ row = 0 /\ mpc = "none" /\ out_rows = <<>>
    /\ csv = <<>> /\ mode = "json" /\ dry_run = FALSE /\ site = <<>>
    /\ page = 0 /\ found = <<>> /\ returned = <<>> /\ cache = <<>>
    /\ fresh_ids = {}

Init ==
    /\ cands \in CandidateLists
    /\ limit \in Limits
    /\ min_rating \in MinRatings
    /\ max_per_observer \in Caps
    /\ months \in MonthsArgs
    /\ region \in RegionArgs
    /\ low_quality_frac \in Fractions
    /\ rng = Seeded(<<>>)
    /\ pc = "call"
    /\ NoLocals
    /\ result = <<>>
    /\ run = 1
    /\ first = <<>>
    /\ NoProgram

\* the filter applied to the caller's list itself
FilterInPlace ==
    /\ pc = "call"
    /\ filtered' = Filtered(cands)
    /\ cands' = filtered'
    /\ pc' = "filtered"
    /\ UNCHANGED <<limit, min_rating, max_per_observer, months, region,
                   low_quality_frac, rng, deduped, capped, with_rating,
                   no_rating, top_cut, top_pool, top_pick, realistic_pool,
                   realistic_pick, picks, result, run, first>>
    /\ UNCHANGED env

\* line 124
Filter ==
    /\ pc = "call"
    /\ filtered' = Filtered(cands)
    /\ pc' = "filtered"
    /\ UNCHANGED <<args, rng, deduped, capped, with_rating, no_rating,
                   top_cut, top_pool, top_pick, realistic_pool,
                   realistic_pick, picks, result, run, first>>
    /\ UNCHANGED env

\* lines 125-128
Dedupe ==
    /\ pc = "filtered"
    /\ deduped' = Deduped(filtered)
    /\ pc' = "deduped"
    /\ UNCHANGED <<args, rng, filtered, capped, with_rating, no_rating,
                   top_cut, top_pool, top_pick, realistic_pool,
                   realistic_pick, picks, result, run, first>>
    /\ UNCHANGED env

\* lines 129-134
Cap ==
    /\ pc = "deduped"
    /\ capped' = Capped(deduped)
    /\ pc' = "capped"
    /\ UNCHANGED <<args, rng, filtered, deduped, with_rating, no_rating,
                   top_cut, top_pool, top_pick, realistic_pool,
                   realistic_pick, picks, result, run, first>>
    /\ UNCHANGED env

\* line 135, capped empty
ReturnEmpty ==
    /\ pc = "capped"
    /\ capped = <<>>
    /\ result' = <<>>
    /\ pc' = "done"
    /\ UNCHANGED <<args, rng, locals, run, first>>
    /\ UNCHANGED env

\* lines 136-140; the sort key -x.rating raises TypeError on a None rating
Partition ==
    /\ pc = "capped"
    /\ capped # <<>>
    /\ LET wr == WithRating(capped)
           cut == TopCut(limit, low_quality_frac)
       IN  IF \E i \in 1..Len(wr) : IsNone(wr[i].rating)
           THEN /\ pc' = "raised"
                /\ UNCHANGED <<with_rating, no_rating, top_cut, top_pool>>
           ELSE /\ with_rating' = SortedByRating(wr)
                /\ no_rating' = NoRating(capped)
                /\ top_cut' = cut
                /\ top_pool' = TopPool(with_rating', cut)
                /\ pc' = "partitioned"
    /\ UNCHANGED <<args, rng, filtered, deduped, capped, top_pick,
                   realistic_pool, realistic_pick, picks, result, run, first>>
    /\ UNCHANGED env

\* lines 141-142
ShuffleTop ==
    /\ pc = "partitioned"
    /\ \E js \in ShuffleDraws(Len(top_pool)) :
          /\ Yields(rng, js)
          /\ rng' = Advance(rng, js)
          /\ top_pool' = Shuffled(top_pool, js)
    /\ top_pick' = TopPick(top_pool', top_cut)
    /\ pc' = "top"
    /\ UNCHANGED <<args, filtered, deduped, capped, with_rating, no_rating,
                   top_cut, realistic_pool, realistic_pick, picks, result,
                   run, first>>
    /\ UNCHANGED env

\* lines 143-146
ShuffleRealistic ==
    /\ pc = "top"
    /\ LET pool == RealisticPool(with_rating, top_pool, no_rating)
       IN  \E js \in ShuffleDraws(Len(pool)) :
             /\ Yields(rng, js)
             /\ rng' = Advance(rng, js)
             /\ realistic_pool' = Shuffled(pool, js)
    /\ realistic_pick' = RealisticPick(realistic_pool', limit, top_pick)
    /\ pc' = "realistic"
    /\ UNCHANGED <<args, filtered, deduped, capped, with_rating, no_rating,
                   top_cut, top_pool, top_pick, picks, result, run, first>>
    /\ UNCHANGED env

\* lines 147-149
ShufflePicks ==
    /\ pc = "realistic"
    /\ LET ps == top_pick \o realistic_pick
       IN  \E js \in ShuffleDraws(Len(ps)) :
             /\ Yields(rng, js)
             /\ rng' = Advance(rng, js)
             /\ picks' = Shuffled(ps, js)
    /\ result' = Returned(picks', limit)
    /\ pc' = "done"
    /\ UNCHANGED <<args, filtered, deduped, capped, with_rating, no_rating,
                   top_cut, top_pool, top_pick, realistic_pool,
                   realistic_pick, run, first>>
    /\ UNCHANGED env

Next ==
    \/ Filter
    \/ Dedupe
    \/ Cap
    \/ ReturnEmpty
    \/ Partition
    \/ ShuffleTop
    \/ ShuffleRealistic
    \/ ShufflePicks

Spec == Init /\ [][Next]_vars

\* A second call with the same arguments and a generator made from the same
\* seed: random.Random(args.seed) of another run of main
Again ==
    /\ pc = "done"
    /\ run = 1
    /\ run' = 2
    /\ first' = result
    /\ rng' = Seeded(rng.tape)
    /\ pc' = "call"
    /\ filtered' = <<>> /\ deduped' = <<>> /\ capped' = <<>>
    /\ with_rating' = <<>> /\ no_rating' = <<>> /\ top_cut' = 0
    /\ top_pool' = <<>> /\ top_pick' = <<>> /\ realistic_pool' = <<>>
    /\ realistic_pick' = <<>> /\ picks' = <<>>
    /\ result' = <<>>
    /\ UNCHANGED args
    /\ UNCHANGED env

NextTwice == Next \/ Again

SpecTwice == Init /\ [][NextTwice]_vars

----------------------------------------------------------------------------
(* Calls with more rated candidates than the top_pool window holds.  In    *)
(* these lists ratings and min_rating are counted in half stars (3.5       *)
(* stars is 7), so that the default threshold is a whole number.           *)

\* ratings 5,5,5,4,4,3,3,2,2 and one unrated candidate, ten contributors
ScenarioCands ==
    << Candidate("201", Some(10), Some("o1"), None, None, Some(1)),
       Candidate("202", Some(10), Some("o2"), None, None, Some(2)),
       Candidate("203", Some(10), Some("o3"), None, None, Some(3)),
       Candidate("204", Some(8), Some("o4"), None, None, Some(4)),
       Candidate("205", Some(8), Some("o5"), None, None, Some(5)),
       Candidate("206", Some(6), Some("o6"), None, None, Some(6)),
       Candidate("207", Some(6), Some("o7"), None, None, Some(7)),
       Candidate("208", Some(4), Some("o8"), None, None, Some(8)),
       Candidate("209", Some(4), Some("o9"), None, None, Some(9)),
       Candidate("210", None, Some("o10"), None, None, Some(10)) >>

\* seven candidates rated 3.5 stars or more, one below, one unrated
WideCands ==
    << Candidate("301", Some(8), Some("p1"), None, None, None),
       Candidate("302", Some(10), Some("p2"), None, None, Some(3)),
       Candidate("303", None, Some("p3"), None, None, None),
       Candidate("304", Some(10), Some("p4"), None, None, Some(0)),
       Candidate("305", Some(8), Some("p5"), None, None, Some(1000000)),
       Candidate("306", Some(10), Some("p6"), None, None, None),
       Candidate("307", Some(6), Some("p7"), None, None, Some(1)),
       Candidate("308", Some(8), Some("p8"), None, None, Some(2)),
       Candidate("309", Some(10), Some("p9"), None, None, Some(1)) >>

WindowCalls ==
    { <<ScenarioCands, 4>>, <<WideCands, 1>>, <<WideCands, 2>>, <<<<>>, 1>> }

InitWindow ==
    /\ \E call \in WindowCalls : cands = call[1] /\ limit = call[2]
    /\ min_rating = 7
    /\ max_per_observer = 2
    /\ months = None
    /\ region = None
    /\ low_quality_frac \in Fractions
    /\ rng = Seeded(<<>>)
    /\ pc = "call"
    /\ NoLocals
    /\ result = <<>>
    /\ run = 1
    /\ first = <<>>
    /\ NoProgram

SpecWindow == InitWindow /\ [][Next]_vars

----------------------------------------------------------------------------
(* fetch_photos.py: candidate discovery and main.  A cell of the input     *)
(* CSV is a sequence of pieces, a piece being a blank " " or a run of      *)
(* other characters, so that str.strip() has something to remove.  The     *)
(* rows have no Region, Months, MinRating, MaxPerObserver or               *)
(* LowQualityFrac cell and no command-line override is given, so every     *)
(* call of the sampler uses main's defaults (ratings in half stars).       *)

MaxRows == 2
MaxPages == 2
DefaultMinRating == 7
DefaultMaxPerObserver == 2
DefaultLowQualityFrac == <<3, 10>>

RECURSIVE LStrip(_)
LStrip(s) == IF s # <<>> /\ Head(s) = " " THEN LStrip(Tail(s)) ELSE s

RECURSIVE RStrip(_)
RStrip(s) ==
    IF s # <<>> /\ s[Len(s)] = " " THEN RStrip(SubSeq(s, 1, Len(s) - 1))
    ELSE s

\* str.strip()
Strip(s) == LStrip(RStrip(s))

InputRows == <<
    [Species |-> <<"Robin", " ">>, Tags |-> <<" ", "thrush">>, Limit |-> 2],
    [Species |-> <<"Wren">>,       Tags |-> <<>>,              Limit |-> 1],
    [Species |-> <<" ", "Owl">>,   Tags |-> <<"night">>,       Limit |-> 1],
    [Species |-> <<"Robin">>,      Tags |-> <<"thrush">>,      Limit |-> 0] >>

\* the input CSV: some consecutive rows of InputRows
Inputs ==
    { SubSeq(InputRows, ab[1], ab[2]) :
        ab \in { x \in (1..Len(InputRows)) \X (0..Len(InputRows)) :
                    x[1] - 1 <= x[2] /\ x[2] - x[1] < MaxRows } }

\* What the catalogue holds: the items of page p of the JSON search for q
\* (an item without an asset id has mlid "") ...
JsonItems(q, p) ==
    IF q # <<"Robin">> THEN <<>>
    ELSE IF p = 1 THEN
        << Candidate("401", Some(10), Some("ann"), Some(<<"U", "S">>),
                     Some(6), Some(1)),
           Candidate("", Some(10), Some("bob"), None, None, Some(2)) >>
    ELSE IF p = 2 THEN
        << Candidate("402", None, None, None, None, None),
           Candidate("401", Some(8), Some("bob"), None, Some(6), None) >>
    ELSE << Candidate("403", Some(6), Some("cy"), None, None, Some(9)) >>

\* ... and the asset links of page p of the HTML search for q
HtmlItems(q, p) ==
    IF q = <<"Owl">> THEN
        IF p = 1 THEN << Candidate("501", Some(9), Some("dee"), None,
                                   Some(3), None) >>
        ELSE IF p = 2 THEN << Candidate("502", None, None, None, None,
                                        None) >>
        ELSE <<>>
    ELSE IF q = <<"Robin">> /\ p = 1 THEN
        << Candidate("401", Some(10), Some("ann"), None, Some(6), None) >>
    ELSE <<>>

\* How the remote answers each page request: "ok", "error" (polite_get or
\* r.json() raises) or, for the JSON search, "notobject" (a JSON payload
\* that is not an object)
Sites ==
    [ json : [1..MaxPages -> {"ok", "error", "notobject"}],
      html : [1..MaxPages -> {"ok", "error"}] ]

species == Strip(df[row].Species)
tags == Strip(df[row].Tags)

\* the loop over a page's items
WithId(items) == SubList(items, {i \in 1..Len(items) : items[i].mlid # ""})

InitMain ==
    /\ df \in Inputs
    /\ row = 0
    /\ mpc = "loop"
    /\ out_rows = <<>>
    /\ csv = None
    /\ mode \in {"json", "html"}
    /\ dry_run \in BOOLEAN
    /\ site \in Sites
    /\ page = 0
    /\ found = <<>>
    /\ returned = <<>>
    /\ cache = <<>>
    /\ fresh_ids = {}
    /\ cands = <<>> /\ limit = 0 /\ min_rating = DefaultMinRating
    /\ max_per_observer = DefaultMaxPerObserver
    /\ months = None /\ region = None
    /\ low_quality_frac = DefaultLowQualityFrac
    /\ rng = Seeded(<<>>)
    /\ pc = "idle"
    /\ NoLocals
    /\ result = <<>>
    /\ run = 1
    /\ first = <<>>

\* the next row of df, up to the first page request
NextRow ==
    /\ mpc = "loop"
    /\ row < Len(df)
    /\ row' = row + 1
    /\ limit' = df[row + 1].Limit
    /\ min_rating' = DefaultMinRating
    /\ max_per_observer' = DefaultMaxPerObserver
    /\ months' = None
    /\ region' = None
    /\ low_quality_frac' = DefaultLowQualityFrac
    /\ cands' = <<>>
    /\ mpc' = mode
    /\ page' = 1
    /\ found' = <<>>
    /\ UNCHANGED <<df, out_rows, csv, mode, dry_run, site, returned, cache,
                   fresh_ids, rng, pc, locals, result, run, first>>

discovery == <<df, row, out_rows, csv, mode, dry_run, site, returned, cache,
               fresh_ids, args, rng, pc, locals, result, run, first>>

\* fetch_json_candidates: one readable page
JsonPage ==
    /\ mpc = "json"
    /\ page <= MaxPages
    /\ site.json[page] = "ok"
    /\ found' = found \o WithId(JsonItems(species, page))
    /\ page' = page + 1
    /\ UNCHANGED <<mpc, discovery>>

\* fetch_json_candidates: the request or the decoding raises
JsonBreak ==
    /\ mpc = "json"
    /\ page <= MaxPages
    /\ site.json[page] = "error"
    /\ mpc' = "json_returned"
    /\ UNCHANGED <<page, found, discovery>>

\* fetch_json_candidates: data.get on a payload that is not an object
JsonRaise ==
    /\ mpc = "json"
    /\ page <= MaxPages
    /\ site.json[page] = "notobject"
    /\ mpc' = "aborted"
    /\ UNCHANGED <<page, found, discovery>>

\* fetch_json_candidates: the range is exhausted
JsonEnd ==
    /\ mpc = "json"
    /\ page > MaxPages
    /\ mpc' = "json_returned"
    /\ UNCHANGED <<page, found, discovery>>

\* main: nothing from the JSON search, try the HTML search
Fallback ==
    /\ mpc = "json_returned"
    /\ found = <<>>
    /\ mpc' = "html"
    /\ page' = 1
    /\ UNCHANGED <<found, discovery>>

\* fetch_html_candidates: one readable page
HtmlPage ==
    /\ mpc = "html"
    /\ page <= MaxPages
    /\ site.html[page] = "ok"
    /\ found' = found \o HtmlItems(species, page)
    /\ page' = page + 1
    /\ UNCHANGED <<mpc, discovery>>

\* fetch_html_candidates: the request raises
HtmlBreak ==
    /\ mpc = "html"
    /\ page <= MaxPages
    /\ site.html[page] = "error"
    /\ mpc' = "html_returned"
    /\ UNCHANGED <<page, found, discovery>>

\* fetch_html_candidates: the range is exhausted
HtmlEnd ==
    /\ mpc = "html"
    /\ page > MaxPages
    /\ mpc' = "html_returned"
    /\ UNCHANGED <<page, found, discovery>>

\* main calls stratified_sample with what discovery returned
CallSample ==
    /\ \/ mpc = "json_returned" /\ found # <<>>
       \/ mpc = "html_returned"
    /\ cands' = found
    /\ mpc' = "sample"
    /\ pc' = "call"
    /\ UNCHANGED <<limit, min_rating, max_per_observer, months, region,
                   low_quality_frac, rng, locals, result, run, first,
                   df, row, out_rows, csv, mode, dry_run, site, page, found,
                   returned, cache, fresh_ids>>

RowsOfFirst(ps, sp, tg) ==
    [k \in 1..Min(1, Len(ps)) |-> [ML_ID |-> ps[k].mlid, Species |-> sp,
                                   Tags |-> tg]]

\* the rows main appends for one species
RowsOf(ps, sp, tg) ==
    [k \in 1..Len(ps) |-> [ML_ID |-> ps[k].mlid, Species |-> sp,
                           Tags |-> tg]]

\* stratified_sample has returned: the sampler's frame is gone
SampleReturned ==
    /\ mpc = "sample"
    /\ pc = "done"
    /\ pc' = "idle"
    /\ filtered' = <<>> /\ deduped' = <<>> /\ capped' = <<>>
    /\ with_rating' = <<>> /\ no_rating' = <<>> /\ top_cut' = 0
    /\ top_pool' = <<>> /\ top_pick' = <<>> /\ realistic_pool' = <<>>
    /\ realistic_pick' = <<>> /\ picks' = <<>>
    /\ returned' = Append(returned, result)
    /\ mpc' = "loop"
    /\ UNCHANGED <<args, rng, result, run, first, df, row, csv, mode,
                   dry_run, site, page, found, cache, fresh_ids>>

\* main with --dry-run: report the counts and continue
DryRun ==
    /\ dry_run
    /\ SampleReturned
    /\ UNCHANGED out_rows

\* main: one output row per pick
Emit ==
    /\ ~dry_run
    /\ SampleReturned
    /\ out_rows' = out_rows \o RowsOf(result, species, tags)

\* main with --dry-run: return after the loop
DryReturn ==
    /\ mpc = "loop"
    /\ row = Len(df)
    /\ dry_run
    /\ mpc' = "returned"
    /\ UNCHANGED <<df, row, out_rows, csv, mode, dry_run, site, page, found,
                   returned, cache, fresh_ids, args, rng, pc, locals, result,
                   run, first>>

\* main: write the output CSV after the loop
WriteCsv ==
    /\ mpc = "loop"
    /\ row = Len(df)
    /\ ~dry_run
    /\ csv' = Some(out_rows)
    /\ mpc' = "written"
    /\ UNCHANGED <<df, row, out_rows, mode, dry_run, site, page, found,
                   returned, cache, fresh_ids, args, rng, pc, locals, result,
                   run, first>>

NextMain ==
    \/ NextRow
    \/ JsonPage
    \/ JsonBreak
    \/ JsonRaise
    \/ JsonEnd
    \/ Fallback
    \/ HtmlPage
    \/ HtmlBreak
    \/ HtmlEnd
    \/ CallSample
    \/ Filter
    \/ Dedupe
    \/ Cap
    \/ ReturnEmpty
    \/ Partition
    \/ ShuffleTop
    \/ ShuffleRealistic
    \/ ShufflePicks
    \/ DryRun
    \/ Emit
    \/ DryReturn
    \/ WriteCsv

SpecMain == InitMain /\ [][NextMain]_vars

----------------------------------------------------------------------------
(* fetch.py: main_async and its per-taxon cache of asset ids.  main_async  *)
(* has the same locals as fetch_photos.main (df, row, out_rows, rng) and   *)
(* they are kept in the same variables; cache is the cache directory, one  *)
(* file per taxon code, which outlives a run.  What the generator yields   *)
(* is not followed here: sample_ids' outcome is any outcome rng.sample     *)
(* can give.                                                               *)

MaxRuns == 2

\* the asset ids of the catalogue, in the order sorted() gives strings
IdsInOrder == <<"11", "2", "30">>
Ids == {IdsInOrder[i] : i \in 1..Len(IdsInOrder)}

FetchRows == <<
    [Species |-> <<"Robin">>, TaxonCode |-> <<"amerob", " ">>,
     Tags |-> <<"thrush">>, Limit |-> 1],
    [Species |-> <<"Owl">>, TaxonCode |-> <<"brnowl">>,
     Tags |-> <<>>, Limit |-> 2],
    [Species |-> <<"Robin">>, TaxonCode |-> <<"amerob">>,
     Tags |-> <<>>, Limit |-> 0],
    [Species |-> <<"Owl">>, TaxonCode |-> <<"brnowl">>,
     Tags |-> <<>>, Limit |-> -1] >>

\* the input CSV: some consecutive rows of FetchRows
FetchInputs ==
    { SubSeq(FetchRows, ab[1], ab[2]) :
        ab \in { x \in (1..Len(FetchRows)) \X (0..Len(FetchRows)) :
                    x[1] - 1 <= x[2] /\ x[2] - x[1] < MaxRows } }

Codes == {Strip(FetchRows[i].TaxonCode) : i \in 1..Len(FetchRows)}

\* A cache file: absent, not decodable, or a JSON list of ids
Missing == [kind |-> "missing", items |-> <<>>]
Garbage == [kind |-> "garbage", items |-> <<>>]
JsonList(items) == [kind |-> "list", items |-> items]

CacheFiles == {Missing, Garbage, JsonList(<<"2">>)}

code == Strip(df[row].TaxonCode)

load_cache(file) ==
    IF file.kind = "list" THEN {file.items[i] : i \in 1..Len(file.items)}
    ELSE {}

\* json.dumps(sorted(list(ids)))
save_cache(ids) ==
    JsonList(SubList(IdsInOrder, {i \in 1..Len(IdsInOrder) : IdsInOrder[i] \in ids}))

AllIdsFreshOnly(cached, fresh) == fresh

\* all_ids = cached.union(set(fresh_ids))
AllIds(cached, fresh) == cached \cup fresh

all_ids == AllIds(load_cache(cache[code]), fresh_ids)

\* the lists without repetition of k members of S, for 0 <= k <= |S|
RECURSIVE Arrangements(_, _)
Arrangements(S, k) ==
    IF k = 0 THEN {<<>>}
    ELSE UNION { {<<x>> \o t : t \in Arrangements(S \ {x}, k - 1)} : x \in S }

\* the lists sample_ids can return (list(all_ids) is in no fixed order)
sample_ids(S, k) ==
    IF k >= Cardinality(S) THEN Arrangements(S, Cardinality(S))
    ELSE Arrangements(S, k)

InitFetch ==
    /\ df \in FetchInputs
    /\ row = 0
    /\ mpc = "loop"
    /\ out_rows = <<>>
    /\ csv = None
    /\ cache \in [Codes -> CacheFiles]
    /\ fresh_ids = {}
    /\ run = 1
    /\ mode = "json" /\ dry_run = FALSE /\ site = <<>> /\ page = 0
    /\ found = <<>> /\ returned = <<>>
    /\ cands = <<>> /\ limit = 0 /\ min_rating = DefaultMinRating
    /\ max_per_observer = DefaultMaxPerObserver
    /\ months = None /\ region = None
    /\ low_quality_frac = DefaultLowQualityFrac
    /\ rng = Seeded(<<>>)
    /\ pc = "idle"
    /\ NoLocals
    /\ result = <<>>
    /\ first = <<>>

unused == <<mode, dry_run, site, page, found, returned, cands, min_rating,
            max_per_observer, months, region, low_quality_frac, rng, pc,
            locals, result, first>>

\* the next row of df: gather_for_taxon returns the ids it saw
Gather ==
    /\ mpc = "loop"
    /\ row < Len(df)
    /\ row' = row + 1
    /\ limit' = df[row + 1].Limit
    /\ fresh_ids' \in SUBSET Ids
    /\ mpc' = "gathered"
    /\ UNCHANGED <<df, out_rows, csv, cache, run, unused>>

\* the next row of df: gather_for_taxon raises (page.goto or a wait times
\* out); nothing between it and asyncio.run catches the exception
GatherRaises ==
    /\ mpc = "loop"
    /\ row < Len(df)
    /\ row' = row + 1
    /\ limit' = df[row + 1].Limit
    /\ mpc' = "gather_raised"
    /\ UNCHANGED <<df, out_rows, csv, cache, fresh_ids, run, unused>>

\* nothing cached and nothing fetched: continue
SkipRow ==
    /\ mpc = "gathered"
    /\ all_ids = {}
    /\ mpc' = "loop"
    /\ UNCHANGED <<df, row, limit, out_rows, csv, cache, fresh_ids, run,
                   unused>>

\* sample, append the rows, save the cache
SampleAndSave ==
    /\ mpc = "gathered"
    /\ all_ids # {}
    /\ limit >= 0
    /\ \E ps \in sample_ids(all_ids, limit) :
        out_rows' = out_rows \o
            [k \in 1..Len(ps) |-> [ML_ID |-> ps[k],
                                   Species |-> Strip(df[row].Species),
                                   Tags |-> Strip(df[row].Tags)]]
    /\ cache' = [cache EXCEPT ![code] = save_cache(all_ids)]
    /\ mpc' = "loop"
    /\ UNCHANGED <<df, row, limit, csv, fresh_ids, run, unused>>

\* rng.sample with a negative k raises ValueError
SampleRaises ==
    /\ mpc = "gathered"
    /\ all_ids # {}
    /\ limit < 0
    /\ mpc' = "sample_raised"
    /\ UNCHANGED <<df, row, limit, out_rows, csv, cache, fresh_ids, run,
                   unused>>

\* after the loop: write the output CSV
WriteOut ==
    /\ mpc = "loop"
    /\ row = Len(df)
    /\ csv' = Some(out_rows)
    /\ mpc' = "written"
    /\ UNCHANGED <<df, row, limit, out_rows, cache, fresh_ids, run, unused>>

\* the program is run again on the same input and cache directory
RunAgain ==
    /\ mpc \in {"written", "gather_raised", "sample_raised"}
    /\ run < MaxRuns
    /\ run' = run + 1
    /\ row' = 0
    /\ out_rows' = <<>>
    /\ fresh_ids' = {}
    /\ mpc' = "loop"
    /\ UNCHANGED <<df, limit, csv, cache, unused>>

NextFetch ==
    \/ Gather
    \/ GatherRaises
    \/ SkipRow
    \/ SampleAndSave
    \/ SampleRaises
    \/ WriteOut
    \/ RunAgain

SpecFetch == InitFetch /\ [][NextFetch]_vars

----------------------------------------------------------------------------
(* Properties of stratified_sample *)

Elems(s) == {s[i] : i \in 1..Len(s)}

Returns == pc = "done"

\* the three filter conditions, as stated for the sampler's constraints
PassesRating(c) == IsNone(c.rating) \/ Val(c.rating) >= min_rating
MatchesRegion(c) == IsSubstring(Lower(Val(region)), Lower(Val(c.region)))
PassesRegion(c) == IsNone(region) \/ IsNone(c.region) \/ MatchesRegion(c)
MonthAllowed(c) == Val(c.month) \in Elems(Val(months))
PassesMonth(c) == IsNone(months) \/ IsNone(c.month) \/ MonthAllowed(c)

\* no candidate can survive filtering and capping
NoSurvivor ==
    \/ max_per_observer < 1
    \/ \A i \in 1..Len(cands) :
          ~(PassesRating(cands[i]) /\ PassesRegion(cands[i])
              /\ PassesMonth(cands[i]))

\* C1: for limit >= 1 and cap >= 1 the returned list has exactly
\* min(limit, N) elements, N the number of candidates left after filtering,
\* deduplication and per-observer capping.
C1_LengthIsMinLimitSurvivors ==
    (Returns /\ limit >= 1 /\ max_per_observer >= 1)
        => Len(result) = Min(limit, Len(capped))

\* C2: the returned list has at most limit elements, and none when limit is
\* not positive.
C2_LengthAtMostLimit ==
    Returns => Len(result) <= Max(limit, 0)

C2_Witness ==
    Returns /\ limit >= 1 /\ Len(result) = limit /\ Len(capped) > limit

\* C3: the returned list never holds two candidates with the same mlid.
C3_NoDuplicateIds ==
    Returns =>
        \A i, j \in 1..Len(result) : i # j => result[i].mlid # result[j].mlid

C3_Witness ==
    /\ Returns
    /\ \E i, j \in 1..Len(filtered) :
          /\ i < j
          /\ filtered[i].mlid = filtered[j].mlid
          /\ \E k \in 1..Len(result) : result[k].mlid = filtered[i].mlid

\* C4: every returned candidate has no rating or a rating >= min_rating, and
\* the rating filter never excludes a candidate without rating (one that
\* passes the region and month filters is kept by the filter step).
C4_RatingFilter ==
    /\ Returns => \A k \in 1..Len(result) : PassesRating(result[k])
    /\ pc # "call" =>
          \A i \in 1..Len(cands) :
              (IsNone(cands[i].rating) /\ PassesRegion(cands[i])
                  /\ PassesMonth(cands[i]))
                  => cands[i] \in Elems(filtered)

C4_Witness ==
    /\ Returns
    /\ \E i \in 1..Len(cands) : ~PassesRating(cands[i])
    /\ \E k \in 1..Len(result) : IsNone(result[k].rating)
    /\ \E k \in 1..Len(result) : ~IsNone(result[k].rating)

\* C5: no contributor occurs more than max_per_observer times in the
\* returned list, the candidates without contributor counting as one
\* contributor; when all candidates share one contributor and the cap is 1
\* the list has at most one element.
C5_ObserverCap ==
    /\ Returns =>
          \A k \in 1..Len(result) :
              Cardinality({j \in 1..Len(result) :
                              result[j].observer = result[k].observer})
                  <= max_per_observer
    /\ (/\ Returns
        /\ max_per_observer = 1
        /\ \A i, j \in 1..Len(cands) : cands[i].observer = cands[j].observer)
          => Len(result) <= 1

C5_Witness ==
    /\ Returns
    /\ max_per_observer = 1
    /\ limit >= 2
    /\ Len(deduped) >= 2
    /\ \A i \in 1..Len(cands) : IsNone(cands[i].observer)
    /\ Len(result) = 1

\* C6: with allowed months set, every returned candidate with a known month
\* has it in the set, and a candidate without month is never excluded by the
\* month filter.
C6_MonthFilter ==
    /\ (Returns /\ ~IsNone(months)) =>
          \A k \in 1..Len(result) :
              IsNone(result[k].month) \/ MonthAllowed(result[k])
    /\ pc # "call" =>
          \A i \in 1..Len(cands) :
              (IsNone(cands[i].month) /\ PassesRating(cands[i])
                  /\ PassesRegion(cands[i]))
                  => cands[i] \in Elems(filtered)

C6_Witness ==
    /\ Returns
    /\ ~IsNone(months)
    /\ \E i \in 1..Len(cands) : ~PassesMonth(cands[i])
    /\ \E k \in 1..Len(result) : IsNone(result[k].month)
    /\ \E k \in 1..Len(result) : ~IsNone(result[k].month)

\* C7: with a region constraint, every returned candidate with a known
\* region contains the constraint as a case-insensitive substring, and a
\* candidate without region is never excluded by the region filter.
C7_RegionFilter ==
    /\ (Returns /\ ~IsNone(region)) =>
          \A k \in 1..Len(result) :
              IsNone(result[k].region) \/ MatchesRegion(result[k])
    /\ pc # "call" =>
          \A i \in 1..Len(cands) :
              (IsNone(cands[i].region) /\ PassesRating(cands[i])
                  /\ PassesMonth(cands[i]))
                  => cands[i] \in Elems(filtered)

C7_Witness ==
    /\ Returns
    /\ ~IsNone(region)
    /\ \E i \in 1..Len(cands) : ~PassesRegion(cands[i])
    /\ \E k \in 1..Len(result) : IsNone(result[k].region)
    /\ \E k \in 1..Len(result) :
          /\ ~IsNone(result[k].region)
          /\ Val(result[k].region) # Lower(Val(result[k].region))

\* C8: a second call with the same candidate list, the same constraints and
\* a generator in the same (same-seed) state returns the same list in the
\* same order.
C8_Deterministic ==
    (run = 2 /\ Returns) => result = first

C8_Witness ==
    run = 2 /\ Returns /\ Len(rng.tape) >= 2 /\ Len(result) >= 2

\* C9: for limit <= 0 the call raises nothing and returns the empty list.
C9_NonPositiveLimitEmpty ==
    limit <= 0 => (pc # "raised" /\ (Returns => result = <<>>))

C9_Witness ==
    Returns /\ limit < 0 /\ Len(cands) = MaxLen /\ picks # <<>>

\* C10: when no candidate survives filtering, deduplication and capping
\* (an empty input list included) the call returns the empty list at the
\* check of the capped pool, and raises nothing.
C10_NoSurvivorEmpty ==
    NoSurvivor =>
        /\ pc \in {"call", "filtered", "deduped", "capped", "done"}
        /\ Returns => result = <<>>

C10_Witness ==
    Returns /\ cands # <<>> /\ NoSurvivor /\ capped = <<>> /\ limit >= 1

\* the scenario of ten candidates with limit 4 and the default constraints
ScenarioCall ==
    /\ cands = ScenarioCands /\ limit = 4 /\ min_rating = 7
    /\ max_per_observer = 2 /\ low_quality_frac = <<3, 10>>

PoolBuilt == pc \in {"realistic", "done"}
IsSorted == pc \in {"partitioned", "top", "realistic", "done"}

\* C11: in the scenario the one pick from the realistic pool can be a
\* rating-4 candidate for some outcome of the shuffle and the unrated
\* candidate for another: both are in the pool it is drawn from.
C11_RealisticPickCanBeEither ==
    (ScenarioCall /\ PoolBuilt) =>
        /\ \E c \in Elems(realistic_pool) : c.rating = Some(8)
        /\ \E c \in Elems(realistic_pool) : IsNone(c.rating)

\* C14: a call leaves the candidate list it was given as it was: same
\* length, same order, same records with the same fields.
C14_CandidatesUntouched == [][cands' = cands]_vars

C14_Witness ==
    /\ Returns
    /\ Len(cands) = MaxLen
    /\ Len(filtered) < Len(cands)
    /\ Len(with_rating) >= 2
    /\ with_rating # WithRating(capped)
    /\ rng.pos > 0
    /\ result # <<>>

\* top_cut and the window as the sampler's contract states them
StatedTopCut ==
    Max(1, Round(limit * (low_quality_frac[2] - low_quality_frac[1]),
                 low_quality_frac[2]))
StatedWindow == Take(with_rating, Max(3 * StatedTopCut, StatedTopCut + 5))
StatedRealistic ==
    Elems(Drop(with_rating, Len(StatedWindow)))
        \cup {c \in Elems(capped) : IsNone(c.rating)}
CountIn(s, S) == Cardinality({k \in 1..Len(s) : s[k] \in S})

\* C16: for limit >= 1 the returned list holds exactly
\* min(top_cut, window size) candidates of the window, the first
\* max(3 * top_cut, top_cut + 5) rated capped candidates in sorted order;
\* in the scenario these are 3 of 4 returned candidates.
C16_TopPicksFromWindow ==
    /\ (Returns /\ limit >= 1) =>
          CountIn(result, Elems(StatedWindow))
              = Min(StatedTopCut, Len(StatedWindow))
    /\ (Returns /\ ScenarioCall) =>
          CountIn(result, Elems(StatedWindow)) = 3 /\ Len(result) = 4

C16_Witness ==
    /\ Returns
    /\ limit >= 1
    /\ Len(with_rating) > Len(StatedWindow)
    /\ Len(StatedWindow) > StatedTopCut
    /\ CountIn(result, Elems(StatedWindow)) = StatedTopCut
    /\ Len(result) > StatedTopCut

\* C17: the realistic pool is the rated capped candidates sorted after the
\* window together with all unrated capped candidates; the returned list
\* holds exactly min(max(0, limit - len(top_pick)), pool size) of them; a
\* rated candidate of the window that is no top pick is never returned.
C17_RealisticPool ==
    /\ PoolBuilt =>
          /\ Elems(realistic_pool) = StatedRealistic
          /\ Len(realistic_pool) = Cardinality(StatedRealistic)
    /\ Returns =>
          /\ CountIn(result, StatedRealistic)
                = Min(Max(0, limit - Len(top_pick)),
                      Cardinality(StatedRealistic))
          /\ \A c \in Elems(StatedWindow) \ Elems(top_pick) :
                c \notin Elems(result)

C17_Witness ==
    /\ Returns
    /\ Len(with_rating) > Len(StatedWindow)
    /\ \E c \in Elems(result) :
          c \in StatedRealistic /\ ~IsNone(c.rating)
    /\ \E c \in Elems(StatedWindow) : c \notin Elems(result)
    /\ Cardinality(StatedRealistic) > limit - Len(top_pick)

Ranked(c) == ~IsNone(c.quality_rank)

\* C18: the sorted with_rating list is ordered by rating descending and,
\* among equal ratings, by rank ascending, with every candidate without
\* rank after every candidate with a rank, whatever the rank values.
C18_SortedByRatingThenRank ==
    IsSorted =>
        \A i, j \in 1..Len(with_rating) :
            i < j =>
                LET a == with_rating[i]
                    b == with_rating[j]
                IN  \/ Val(a.rating) > Val(b.rating)
                    \/ /\ Val(a.rating) = Val(b.rating)
                       /\ (Ranked(a) /\ Ranked(b))
                             => Val(a.quality_rank) <= Val(b.quality_rank)
                       /\ ~Ranked(a) => ~Ranked(b)

----------------------------------------------------------------------------
(* Properties of discovery and of fetch_photos.main *)

PageCandidates(kind, p) ==
    IF kind = "json" THEN Elems(WithId(JsonItems(species, p)))
    ELSE Elems(HtmlItems(species, p))

Readable(kind, p) ==
    IF kind = "json" THEN site.json[p] = "ok" ELSE site.html[p] = "ok"

\* C13: when fetch_json_candidates or fetch_html_candidates returns, its
\* list holds the candidates of every readable page, whether or not an
\* earlier page failed: a failed page is skipped and the pages after it
\* are still fetched and merged with those before it.
C13_FailedPageSkipped ==
    \A kind \in {"json", "html"} :
        (mpc = kind \o "_returned") =>
            \A p \in 1..MaxPages :
                Readable(kind, p) => PageCandidates(kind, p) \subseteq Elems(found)

RECURSIVE StatedRows(_)
StatedRows(n) ==
    IF n = 0 THEN <<>>
    ELSE StatedRows(n - 1) \o
         [k \in 1..Len(returned[n]) |->
             [ML_ID |-> returned[n][k].mlid, Species |-> df[n].Species,
              Tags |-> df[n].Tags]]

RECURSIVE StatedRowsStripped(_)
StatedRowsStripped(n) ==
    IF n = 0 THEN <<>>
    ELSE StatedRowsStripped(n - 1) \o
         [k \in 1..Len(returned[n]) |->
             [ML_ID |-> returned[n][k].mlid,
              Species |-> Strip(df[n].Species), Tags |-> Strip(df[n].Tags)]]

\* C15 as stated: the rows main writes without --dry-run are, species by
\* species in input order, one row per returned pick in pick order, with
\* ML_ID the pick's mlid and Species and Tags the cells of the input row;
\* every input row has been sampled, whatever the earlier ones returned.
C15_RowsCopied ==
    mpc = "written" =>
        /\ Len(returned) = Len(df)
        /\ Val(csv) = StatedRows(Len(df))

\* C15 amended: the same, with Species and Tags the cells of the input row
\* stripped of surrounding whitespace.
C15_RowsStripped ==
    mpc = "written" =>
        /\ Len(returned) = Len(df)
        /\ Val(csv) = StatedRowsStripped(Len(df))

\* a written CSV where a species without picks precedes one with picks
\* whose Species cell had whitespace to strip
C15_Witness ==
    /\ mpc = "written"
    /\ \E i, j \in 1..Len(returned) :
        /\ i < j
        /\ returned[i] = <<>>
        /\ returned[j] # <<>>
        /\ Strip(df[j].Species) # df[j].Species

----------------------------------------------------------------------------
(* Properties of fetch.py *)

\* C12: an exception raised by discovery for one species does not end the
\* run: main_async is never left through an exception of gather_for_taxon
\* (the remaining rows are processed and the CSV is written).
C12_DiscoveryErrorContained == mpc # "gather_raised"

Stored(c) == load_cache(cache[c])

NewRows == SubSeq(out_rows', Len(out_rows) + 1, Len(out_rows'))

\* C19: the cache of a taxon code never loses an id.  No step makes the
\* readable set of any cache file smaller; the step that ends the
\* processing of a row leaves a stored set holding every id that was
\* readable before and every id just fetched; and the ML_ID of every row
\* emitted by that step is in the stored set.
C19_CacheNeverLosesIds ==
    [][ /\ \A c \in Codes : Stored(c) \subseteq Stored(c)'
        /\ (mpc = "gathered" /\ mpc' = "loop") =>
              /\ Stored(code) \cup fresh_ids \subseteq Stored(code)'
              /\ \A k \in 1..Len(NewRows) : NewRows[k].ML_ID \in Stored(code)' ]_vars

\* a row has been processed whose ids came partly from the cache and partly
\* from the fetch, and rows were emitted
C19_Witness ==
    /\ mpc = "loop"
    /\ row > 0
    /\ out_rows # <<>>
    /\ fresh_ids # {}
    /\ Stored(code) \ fresh_ids # {}

====
